---------------------------- MODULE Spec2Model ----------------------------
(***************************************************************************)
(* Model of the two frame-sequential algorithms of analisis-rotondas:      *)
(*   - DetectionsManager.update (src/services/javat.py), the zone-crossing *)
(*     event tracker, driven by one update call per processed frame;       *)
(*   - video_stabilizer (src/python/services/stabilizer.py), the           *)
(*     first-frame anchored stabilization loop.                            *)
(* Python dicts are functions whose DOMAIN is the key set, lists are       *)
(* sequences, zone ids are the 0-based indices enumerate() yields.         *)
(* Times are frame_time / fps kept as exact fractions [num, den].          *)
(***************************************************************************)
EXTENDS Integers, Sequences, FiniteSets, TLC

(***************************************************************************)
(* Bounds of the model and sample input sets.                              *)
(***************************************************************************)
MaxUpdates == 2          \* update calls per DetectionsManager
MaxFrames == 4           \* readable frames of the video given to video_stabilizer
MaxFeatures == 5         \* corners goodFeaturesToTrack may return
MaxVideoFrames == 6      \* frames of the video given to process_video
MaxLiveFrames == 3       \* readable frames of the videos of the fair stabilizer runs
MaxVideos == 2           \* entries of the video index given to process_all_videos

Ids == {7, 9}                       \* tracker ids the tracker may emit
ZonesIn == {0, 1}                   \* indices of the entry zones
ZonesOut == {0, 1}                  \* indices of the exit zones
VehicleTypes == {"car", "NoAttr"}   \* "NoAttr": vehicle_type attribute missing
FpsValues == {30}                   \* fps of the clip (> 0)
FrameSteps == {0, 2}                \* advance of frame_time from one call to the next

VARIABLES
    \* ---- DetectionsManager (javat.py 79-93) ----
    fps,
    tracker_id_to_zone_id,
    counts,
    tracker_entry_info,
    events,
    event_counter,
    \* ---- the caller's frame loop (javat.py 231-234) ----
    frame_num,          \* frame_time of the latest update call, -1 before any
    update_calls,       \* number of update calls made so far
    returned,           \* the detections the latest update call returned
    \* ---- history of the branches update has taken ----
    opens,              \* id -> number of records opened for it (line 116)
    last_call           \* ids that took each branch in the latest call

dmVars == <<fps, tracker_id_to_zone_id, counts, tracker_entry_info, events,
            event_counter, frame_num, update_calls, returned, opens, last_call>>

VARIABLES
    \* ---- the video handed to video_stabilizer ----
    src_file,           \* which of the two copies of video_stabilizer runs
    can_open,           \* cap.isOpened() after construction
    total_frames,       \* number of frames cap.read() can deliver
    \* ---- video_stabilizer (stabilizer.py) ----
    pc,                 \* position in the function
    frames_read,        \* frames cap.read() has delivered so far
    cap_released,       \* cap.release() was called
    out_created,        \* the VideoWriter was constructed
    out_released,       \* out.release() was called
    written,            \* frames handed to out.write, in order
    puntos_iniciales,   \* tracked points
    puntos_ref,         \* their first-frame positions
    frame_anterior_gray,\* index of the frame kept as previous gray frame
    puntos_nuevos,      \* locals of the latest loop iteration
    status,
    H,
    result,             \* what the caller gets back
    message,            \* the line printed last
    flow_calls,         \* calls of cv2.calcOpticalFlowPyrLK so far
    homography_calls    \* calls of cv2.findHomography so far

stabVars == <<src_file, can_open, total_frames, pc, frames_read, cap_released,
              out_created, out_released, written, puntos_iniciales, puntos_ref,
              frame_anterior_gray, puntos_nuevos, status, H, result, message,
              flow_calls, homography_calls>>

VARIABLES
    \* ---- VideoProcessor.process_video (javat.py 219-247) ----
    use_sink,           \* self.target_video_path is set: the thread-pool branch
    pv_total,           \* frames the frame generator yields
    pv_pc,              \* position of the main thread in process_video
    pv_frame_num,       \* frame_num of the for loop
    tasks,              \* submitted frame_num -> state of its process_frame call
    update_log,         \* frame_time of every DetectionsManager.update call, in order
    sink                \* frame numbers passed to sink.write_frame, in order

poolVars == <<use_sink, pv_total, pv_pc, pv_frame_num, tasks, update_log, sink>>

VARIABLES
    \* ---- VideoProcessor.process_frame (javat.py 321-380) ----
    zones_in,           \* len(self.zones_in): configured entry zones
    zones_out,          \* len(self.zones_out): configured exit zones
    pf_frame,           \* the tracked detections of the latest processed frame
    passed_in,          \* detections_in_zones of the latest update call
    passed_out          \* detections_out_zones of the latest update call

zoneVars == <<zones_in, zones_out, pf_frame, passed_in, passed_out>>

VARIABLES
    \* ---- procesar_videos (src/python/main.py), one index entry ----
    idx_original,       \* video_info["original"]
    idx_stable,         \* video_info["stable"]
    main_pc,            \* position in the loop body
    uploads,            \* files handed to upload_video, in order
    index_file          \* "stable" of the entry as last dumped to output_json

mainVars == <<idx_original, idx_stable, main_pc, uploads, index_file>>

VARIABLES
    \* ---- process_all_videos / process_single_video ----
    batch_file,         \* which of the two copies runs
    index_loadable,     \* load_video_index can read the index file
    index,              \* the entries of the index: TRUE = has a stable id
    batch_pc,           \* position in process_all_videos
    batch_i,            \* entry the loop is at
    outcomes,           \* success of every process_single_video call, in order
    batch_result,       \* what process_all_videos returned
    javat_zones,        \* ZONE_IN/OUT_POLYGONS of module services.javat
    module_zones,       \* the names ZONE_IN/OUT_POLYGONS of the calling module
    loaded_zones,       \* zones_in, zones_out of the running process_single_video
    processor_video,    \* entry the latest VideoProcessor was constructed for
    processor_zones,    \* polygons its zones_in / zones_out were built from
    csv_videos          \* entries whose events were appended to the CSV

batchVars == <<batch_file, index_loadable, index, batch_pc, batch_i, outcomes,
               batch_result, javat_zones, module_zones, loaded_zones,
               processor_video, processor_zones, csv_videos>>

pipeVars == <<poolVars, zoneVars, mainVars, batchVars>>

vars == <<dmVars, stabVars, pipeVars>>

(***************************************************************************)
(* Helpers for Python containers.                                          *)
(***************************************************************************)
EmptyDict == <<>>

\* dict.setdefault(k, v): the dict after the call
SetDefault(d, k, v) == IF k \in DOMAIN d THEN d ELSE d @@ (k :> v)

\* del d[k]
DelKey_keep(d, k) == d
DelKey(d, k) == [x \in (DOMAIN d) \ {k} |-> d[x]]

\* frame_time / self.fps  (javat.py 102)
TimeSeconds(frame_time, f) == [num |-> frame_time, den |-> f]

\* exit_time - entry_time  (javat.py 127)
TimeSub_swapped(a, b) ==
    [num |-> b.num * a.den - a.num * b.den, den |-> a.den * b.den]
TimeSub(a, b) == [num |-> a.num * b.den - b.num * a.den, den |-> a.den * b.den]

\* comparison of two fractions with positive denominators
TimeGeq(a, b) == a.num * b.den >= b.num * a.den
TimeEq(a, b) == a.num * b.den = b.num * a.den

(***************************************************************************)
(* DetectionsManager.update, entry phase (javat.py 108-117).               *)
(* st is the manager's mutable state as a record.                          *)
(***************************************************************************)
\* try: detections_in_zone.vehicle_type[idx] except AttributeError (111-114)
VehicleTypeOf(d) == IF d.vehicle_type = "NoAttr" THEN "Desconocido" ELSE d.vehicle_type

\* the record line 116 stores
EntryRecord(zone_in_id, d, time_seconds) ==
    [zone_in_id |-> zone_in_id,
     entry_time |-> time_seconds,
     vehicle_type |-> VehicleTypeOf(d)]

\* body of the inner loop for one detection of entry zone zone_in_id
EntryObservation_overwrite(st, zone_in_id, d, time_seconds) ==
    [st EXCEPT
        !.tracker_entry_info =
            (d.tracker_id :> EntryRecord(zone_in_id, d, time_seconds)) @@ @,
        !.tracker_id_to_zone_id = SetDefault(@, d.tracker_id, zone_in_id),
        !.opens[d.tracker_id] = @ + 1,
        !.last_call.opened = @ \cup {d.tracker_id},
        !.last_call.ignored =
            IF d.tracker_id \in DOMAIN st.tracker_entry_info
            THEN @ \cup {d.tracker_id} ELSE @]
EntryObservation_first_zone(st, zone_in_id, d, time_seconds) ==
    IF d.tracker_id \notin DOMAIN st.tracker_entry_info
    THEN LET zone_of == SetDefault(st.tracker_id_to_zone_id, d.tracker_id, zone_in_id)
         IN [st EXCEPT
               !.tracker_entry_info =
                   @ @@ (d.tracker_id :>
                           EntryRecord(zone_of[d.tracker_id], d, time_seconds)),
               !.tracker_id_to_zone_id = zone_of,
               !.opens[d.tracker_id] = @ + 1,
               !.last_call.opened = @ \cup {d.tracker_id}]
    ELSE [st EXCEPT !.last_call.ignored = @ \cup {d.tracker_id}]
EntryObservation_latest_zone(st, zone_in_id, d, time_seconds) ==
    IF d.tracker_id \notin DOMAIN st.tracker_entry_info
    THEN [st EXCEPT
            !.tracker_entry_info =
                @ @@ (d.tracker_id :> EntryRecord(zone_in_id, d, time_seconds)),
            !.tracker_id_to_zone_id = (d.tracker_id :> zone_in_id) @@ @,
            !.opens[d.tracker_id] = @ + 1,
            !.last_call.opened = @ \cup {d.tracker_id}]
    ELSE [st EXCEPT !.last_call.ignored = @ \cup {d.tracker_id}]
EntryObservation(st, zone_in_id, d, time_seconds) ==
    IF d.tracker_id \notin DOMAIN st.tracker_entry_info
    THEN [st EXCEPT
            !.tracker_entry_info =
                @ @@ (d.tracker_id :> EntryRecord(zone_in_id, d, time_seconds)),
            !.tracker_id_to_zone_id = SetDefault(@, d.tracker_id, zone_in_id),
            !.opens[d.tracker_id] = @ + 1,
            !.last_call.opened = @ \cup {d.tracker_id}]
    ELSE [st EXCEPT !.last_call.ignored = @ \cup {d.tracker_id}]

RECURSIVE EntryZone(_, _, _, _)
EntryZone(st, zone_in_id, dz, time_seconds) ==
    IF dz = <<>> THEN st
    ELSE EntryZone(EntryObservation(st, zone_in_id, Head(dz), time_seconds),
                   zone_in_id, Tail(dz), time_seconds)

\* for zone_in_id, detections_in_zone in enumerate(detections_in_zones)
RECURSIVE EntryPhase(_, _, _, _)
EntryPhase(st, detections_in_zones, zone_in_id, time_seconds) ==
    IF zone_in_id >= Len(detections_in_zones) THEN st
    ELSE EntryPhase(EntryZone(st, zone_in_id, detections_in_zones[zone_in_id + 1],
                              time_seconds),
                    detections_in_zones, zone_in_id + 1, time_seconds)

(***************************************************************************)
(* DetectionsManager.update, exit phase (javat.py 120-151).                *)
(***************************************************************************)
\* counts.setdefault(o, {}); counts[o].setdefault(i, set()); counts[o][i].add(id)
AddCount_swapped(c, zone_out_id, zone_in_id, tracker_id) ==
    LET c1 == SetDefault(c, zone_in_id, EmptyDict)
        row == SetDefault(c1[zone_in_id], zone_out_id, {})
    IN [c1 EXCEPT ![zone_in_id] =
            [row EXCEPT ![zone_out_id] = @ \cup {tracker_id}]]
AddCount(c, zone_out_id, zone_in_id, tracker_id) ==
    LET c1 == SetDefault(c, zone_out_id, EmptyDict)
        row == SetDefault(c1[zone_out_id], zone_in_id, {})
    IN [c1 EXCEPT ![zone_out_id] =
            [row EXCEPT ![zone_in_id] = @ \cup {tracker_id}]]

\* lines 123-151: the branch taken when the id has an open record
CloseRecord_swapped_zones(st, zone_out_id, tracker_id, time_seconds) ==
    LET info == st.tracker_entry_info[tracker_id]
        event == [Id |-> tracker_id,
                  Id_Entrada |-> zone_out_id,
                  Id_salida |-> info.zone_in_id,
                  Tiempo_Entrada |-> info.entry_time,
                  Tiempo_Salida |-> time_seconds,
                  Tiempo_dentro |-> TimeSub(time_seconds, info.entry_time),
                  Tipo_vehiculo |-> info.vehicle_type]
    IN [st EXCEPT
          !.counts = AddCount(@, zone_out_id, info.zone_in_id, tracker_id),
          !.events = Append(@, event),
          !.event_counter = @ + 1,
          !.tracker_entry_info = DelKey(@, tracker_id),
          !.last_call.closed = @ \cup {tracker_id}]
CloseRecord_prepends(st, zone_out_id, tracker_id, time_seconds) ==
    LET info == st.tracker_entry_info[tracker_id]
        event == [Id |-> tracker_id,
                  Id_Entrada |-> info.zone_in_id,
                  Id_salida |-> zone_out_id,
                  Tiempo_Entrada |-> info.entry_time,
                  Tiempo_Salida |-> time_seconds,
                  Tiempo_dentro |-> TimeSub(time_seconds, info.entry_time),
                  Tipo_vehiculo |-> info.vehicle_type]
    IN [st EXCEPT
          !.counts = AddCount(@, zone_out_id, info.zone_in_id, tracker_id),
          !.events = <<event>> \o @,
          !.event_counter = @ + 1,
          !.tracker_entry_info = DelKey(@, tracker_id),
          !.last_call.closed = @ \cup {tracker_id}]
CloseRecord(st, zone_out_id, tracker_id, time_seconds) ==
    LET info == st.tracker_entry_info[tracker_id]
        exit_time == time_seconds
        time_inside == TimeSub(exit_time, info.entry_time)
        event == [Id |-> tracker_id,
                  Id_Entrada |-> info.zone_in_id,
                  Id_salida |-> zone_out_id,
                  Tiempo_Entrada |-> info.entry_time,
                  Tiempo_Salida |-> exit_time,
                  Tiempo_dentro |-> time_inside,
                  Tipo_vehiculo |-> info.vehicle_type]
    IN [st EXCEPT
          !.counts = AddCount(@, zone_out_id, info.zone_in_id, tracker_id),
          !.events = Append(@, event),
          !.event_counter = @ + 1,
          !.tracker_entry_info = DelKey(@, tracker_id),
          !.last_call.closed = @ \cup {tracker_id}]

\* body of the inner loop for one detection of exit zone zone_out_id
ExitObservation_counts_orphan(st, zone_out_id, tracker_id, time_seconds) ==
    IF tracker_id \in DOMAIN st.tracker_entry_info
    THEN CloseRecord(st, zone_out_id, tracker_id, time_seconds)
    ELSE [st EXCEPT !.event_counter = @ + 1,
                    !.last_call.orphan = @ \cup {tracker_id}]
ExitObservation(st, zone_out_id, tracker_id, time_seconds) ==
    IF tracker_id \in DOMAIN st.tracker_entry_info
    THEN CloseRecord(st, zone_out_id, tracker_id, time_seconds)
    ELSE [st EXCEPT !.last_call.orphan = @ \cup {tracker_id}]

RECURSIVE ExitZone(_, _, _, _)
ExitZone(st, zone_out_id, dz, time_seconds) ==
    IF dz = <<>> THEN st
    ELSE ExitZone(ExitObservation(st, zone_out_id, Head(dz).tracker_id, time_seconds),
                  zone_out_id, Tail(dz), time_seconds)

\* the exit zones taken from the highest index down
RECURSIVE ExitPhase_descending(_, _, _, _)
ExitPhase_descending(st, detections_out_zones, zone_out_id, time_seconds) ==
    IF zone_out_id >= Len(detections_out_zones) THEN st
    ELSE ExitZone(ExitPhase_descending(st, detections_out_zones, zone_out_id + 1,
                                       time_seconds),
                  zone_out_id, detections_out_zones[zone_out_id + 1], time_seconds)

RECURSIVE ExitPhase(_, _, _, _)
ExitPhase(st, detections_out_zones, zone_out_id, time_seconds) ==
    IF zone_out_id >= Len(detections_out_zones) THEN st
    ELSE ExitPhase(ExitZone(st, zone_out_id, detections_out_zones[zone_out_id + 1],
                            time_seconds),
                   detections_out_zones, zone_out_id + 1, time_seconds)

\* the whole method body up to the class_id adjustment (javat.py 102-151)
UpdateState_exit_first(st, detections_in_zones, detections_out_zones, frame_time) ==
    LET time_seconds == TimeSeconds(frame_time, st.fps)
    IN EntryPhase(ExitPhase(st, detections_out_zones, 0, time_seconds),
                  detections_in_zones, 0, time_seconds)
UpdateState_expiring(st, detections_in_zones, detections_out_zones, frame_time) ==
    LET time_seconds == TimeSeconds(frame_time, st.fps)
        after == ExitPhase(EntryPhase(st, detections_in_zones, 0, time_seconds),
                           detections_out_zones, 0, time_seconds)
        fresh == { id \in DOMAIN after.tracker_entry_info :
                     after.tracker_entry_info[id].entry_time = time_seconds }
    IN [after EXCEPT !.tracker_entry_info = [id \in fresh |-> @[id]]]
UpdateState(st, detections_in_zones, detections_out_zones, frame_time) ==
    LET time_seconds == TimeSeconds(frame_time, st.fps)
    IN ExitPhase(EntryPhase(st, detections_in_zones, 0, time_seconds),
                 detections_out_zones, 0, time_seconds)

\* self.tracker_id_to_zone_id.get(x, -1)  (javat.py 156)
ClassIdOf(zone_of, tracker_id) ==
    IF tracker_id \in DOMAIN zone_of THEN zone_of[tracker_id] ELSE -1

\* lines 154-161: class_id becomes the zone of the id's first entry, or -1;
\* the detections whose class_id is not -1 are returned, in their order
ReturnedDetections_open_only(st, detections_all) ==
    SelectSeq([k \in 1..Len(detections_all) |->
                  [tracker_id |-> detections_all[k].tracker_id,
                   class_id |-> ClassIdOf(st.tracker_id_to_zone_id,
                                          detections_all[k].tracker_id)]],
              LAMBDA d : d.tracker_id \in DOMAIN st.tracker_entry_info)
ReturnedDetections(st, detections_all) ==
    SelectSeq([k \in 1..Len(detections_all) |->
                  [tracker_id |-> detections_all[k].tracker_id,
                   class_id |-> ClassIdOf(st.tracker_id_to_zone_id,
                                          detections_all[k].tracker_id)]],
              LAMBDA d : d.class_id # -1)

(***************************************************************************)
(* The frames the caller can supply.  A frame is the ordered list of       *)
(* tracked detections; each carries its tracker id, its vehicle type and   *)
(* the entry / exit zones whose polygon contains its anchor.               *)
(***************************************************************************)
Detection == [tracker_id : Ids, vehicle_type : VehicleTypes,
              zin : SUBSET ZonesIn, zout : SUBSET ZonesOut]

\* the tracker gives every detection of a frame a distinct tracker id
DistinctIds(frame) ==
    \A i, j \in 1..Len(frame) : i # j => frame[i].tracker_id # frame[j].tracker_id

\* a detection whose anchor lies in at most one zone
SimpleDetection ==
    { d \in Detection : /\ Cardinality(d.zin) + Cardinality(d.zout) <= 1
                        /\ d.vehicle_type = "car" }

\* no detection; one detection in any combination of (overlapping) zones;
\* two detections, each in at most one zone, in either order
Frames ==
    {<<>>} \cup { <<d>> : d \in Detection }
           \cup { f \in { <<d, e>> : d \in SimpleDetection, e \in SimpleDetection } :
                    DistinctIds(f) }

\* detections[zone.trigger(detections)] for each zone (javat.py 358-373)
InZone(frame, z) == SelectSeq(frame, LAMBDA d : z \in d.zin)
OutZone(frame, z) == SelectSeq(frame, LAMBDA d : z \in d.zout)
DetectionsInZones(frame) == [k \in 1..Cardinality(ZonesIn) |-> InZone(frame, k - 1)]
DetectionsOutZones(frame) == [k \in 1..Cardinality(ZonesOut) |-> OutZone(frame, k - 1)]

NoBranch == [opened |-> {}, ignored |-> {}, closed |-> {}, orphan |-> {}]

Self == [fps |-> fps,
         tracker_id_to_zone_id |-> tracker_id_to_zone_id,
         counts |-> counts,
         tracker_entry_info |-> tracker_entry_info,
         events |-> events,
         event_counter |-> event_counter,
         opens |-> opens,
         last_call |-> NoBranch]

(***************************************************************************)
(* State after construction and the update action.                         *)
(***************************************************************************)
InitDM ==
    /\ fps \in FpsValues
    /\ tracker_id_to_zone_id = EmptyDict
    /\ counts = EmptyDict
    /\ tracker_entry_info = EmptyDict
    /\ events = <<>>
    /\ event_counter = 0
    /\ frame_num = -1
    /\ update_calls = 0
    /\ returned = <<>>
    /\ opens = [i \in Ids |-> 0]
    /\ last_call = NoBranch

\* frame_time values are non-decreasing over a run: the caller passes the
\* index of every second frame, starting with frame 0 (javat.py 231-234);
\* step 0 stands for a caller that repeats a frame_time
NextFrameTimes ==
    IF frame_num < 0 THEN {0} ELSE { frame_num + step : step \in FrameSteps }

update ==
    /\ update_calls < MaxUpdates
    /\ \E frame_time \in NextFrameTimes, frame \in Frames :
         LET st == UpdateState(Self, DetectionsInZones(frame),
                               DetectionsOutZones(frame), frame_time)
         IN /\ tracker_id_to_zone_id' = st.tracker_id_to_zone_id
            /\ counts' = st.counts
            /\ tracker_entry_info' = st.tracker_entry_info
            /\ events' = st.events
            /\ event_counter' = st.event_counter
            /\ opens' = st.opens
            /\ last_call' = st.last_call
            /\ returned' = ReturnedDetections(st, frame)
            /\ frame_num' = frame_time
    /\ update_calls' = update_calls + 1
    /\ UNCHANGED fps
    /\ UNCHANGED <<stabVars, pipeVars>>

(***************************************************************************)
(* video_stabilizer (src/python/services/stabilizer.py and its copy        *)
(* src/services/stabilizer.py, which builds the VideoWriter before the     *)
(* first read).  A point is [pt, xy]: xy is the coordinate the arrays      *)
(* hold, pt names the first-frame corner the entry was detected as (the    *)
(* arrays themselves carry only xy).  Frames are named by their index in   *)
(* the input, 0 being the first frame.                                     *)
(***************************************************************************)
MinPoints == 4           \* points a homography needs
Shifts == {0, 1}         \* displacement of the scene between two frames
SrcFiles == {"python/services/stabilizer.py", "services/stabilizer.py"}
None == "None"
\* None where an array of points / of status flags is expected: a value of the
\* array's type that no array cv2 returns equals
NonePoints == <<[pt |-> 0, xy |-> -1]>>
NoneStatus == <<-1>>

\* first-frame coordinate of the i-th detected corner
FirstXY(i) == 10 * i

\* what cv2.goodFeaturesToTrack can return: None or k corners
DetectedPoints(k) == [i \in 1..k |-> [pt |-> i, xy |-> FirstXY(i)]]
FeatureResults == {NonePoints} \cup { DetectedPoints(k) : k \in 1..MaxFeatures }

\* arr[mask] with a boolean mask
RECURSIVE BoolIndex(_, _)
BoolIndex(arr, mask) ==
    IF arr = <<>> \/ mask = <<>> THEN <<>>
    ELSE (IF Head(mask) THEN <<Head(arr)>> ELSE <<>>)
            \o BoolIndex(Tail(arr), Tail(mask))

\* the positions optical flow reports for the points p
Moved(p, dx) == [i \in 1..Len(p) |-> [pt |-> p[i].pt, xy |-> p[i].xy + dx]]

\* what cv2.calcOpticalFlowPyrLK can return for the points p: no result, one
\* new position and one status flag per point, a status of another length
\* than the points, or fewer new positions than points and flags
FlowResults(p) ==
    {[puntos_nuevos |-> NonePoints, status |-> NoneStatus]}
    \cup { [puntos_nuevos |-> Moved(p, dx), status |-> s] :
              dx \in Shifts, s \in [1..Len(p) -> {0, 1}] }
    \cup { [puntos_nuevos |-> Moved(p, 0), status |-> [i \in 1..(Len(p) + 1) |-> 1]] }
    \cup { [puntos_nuevos |-> Moved(SubSeq(p, 1, Len(p) - 1), 0),
            status |-> [i \in 1..Len(p) |-> 1]] }

\* what cv2.findHomography can return
HomographyResults == {None, "H"}

RawFrame(i) == [frame |-> i, warped |-> FALSE]
WarpedFrame(i) == [frame |-> i, warped |-> TRUE]

\* the value a caller receives when the function runs to its last line (119)
ReturnAtEnd == None

\* puntos_iniciales is None or len(puntos_iniciales) < 4  (line 45)
InsufficientPoints_none_only(found) == found = NonePoints
InsufficientPoints(found) == found = NonePoints \/ Len(found) < MinPoints

\* puntos_nuevos is None or status is None  (line 77)
NoFlowResult_unchecked(flow) == FALSE
NoFlowResult(flow) == flow.puntos_nuevos = NonePoints \/ flow.status = NoneStatus

\* len(status) != len(puntos_iniciales) or len(status) != len(puntos_nuevos)
\* (line 84)
InconsistentFlow_input_only(flow, tracked) == Len(flow.status) # Len(tracked)
InconsistentFlow(flow, tracked) ==
    \/ Len(flow.status) # Len(tracked)
    \/ Len(flow.status) # Len(flow.puntos_nuevos)

\* ret, frame_actual = cap.read() with ret true: the capture has delivered
\* one frame more  (line 62)
AfterRead(n) == n + 1

\* len(puntos_iniciales_filtrados) < 4  (line 95)
TooFewSurvivors_none_left(filtrados) == Len(filtrados) = 0
TooFewSurvivors(filtrados) == Len(filtrados) < MinPoints

\* puntos_buenos = (status == 1)  (line 90)
PuntosBuenos(st) == [i \in 1..Len(st) |-> st[i] = 1]

\* puntos_ref_filtrados = puntos_ref[puntos_buenos]  (line 93)
RefFiltrados_unfiltered(ref, puntos_buenos) == ref
RefFiltrados(ref, puntos_buenos) == BoolIndex(ref, puntos_buenos)

\* the frame out.write receives once the points are filtered (lines 95-111)
FrameToWrite_always_fit(frame_actual, filtrados, h) ==
    IF h # None THEN WarpedFrame(frame_actual) ELSE RawFrame(frame_actual)
FrameToWrite_ignores_H(frame_actual, filtrados, h) ==
    IF Len(filtrados) < MinPoints THEN RawFrame(frame_actual)
    ELSE WarpedFrame(frame_actual)
FrameToWrite(frame_actual, filtrados, h) ==
    IF Len(filtrados) < MinPoints THEN RawFrame(frame_actual)
    ELSE IF h # None THEN WarpedFrame(frame_actual)
    ELSE RawFrame(frame_actual)

\* puntos_iniciales = puntos_nuevos_filtrados.reshape(-1, 1, 2)  (line 114)
AdoptedPoints_redetect(filtrados) ==
    IF Len(filtrados) < MinPoints THEN DetectedPoints(MaxFeatures) ELSE filtrados
AdoptedPoints(filtrados) == filtrados

StabIdle ==
    /\ pc = "start"
    /\ frames_read = 0
    /\ cap_released = FALSE
    /\ out_created = FALSE
    /\ out_released = FALSE
    /\ written = <<>>
    /\ puntos_iniciales = NonePoints
    /\ puntos_ref = NonePoints
    /\ frame_anterior_gray = -1
    /\ puntos_nuevos = NonePoints
    /\ status = NoneStatus
    /\ H = None
    /\ result = "running"
    /\ message = ""
    /\ flow_calls = 0
    /\ homography_calls = 0

InitStab ==
    /\ src_file \in SrcFiles
    /\ can_open \in BOOLEAN
    /\ total_frames \in 0..MaxFrames
    /\ StabIdle

\* return (lines 18, 24, 47): the caller gets None
Return(msg) ==
    /\ pc' = "returned"
    /\ result' = None
    /\ message' = msg

\* lines 15-18 (and 36-42 of services/stabilizer.py)
OpenCapture ==
    /\ UNCHANGED <<dmVars, pipeVars>>
    /\ pc = "start"
    /\ IF ~can_open
       THEN /\ Return("No se pudo abrir el video")
            /\ UNCHANGED out_created
       ELSE /\ pc' = "opened"
            /\ out_created' = (src_file = "services/stabilizer.py")
            /\ UNCHANGED <<result, message>>
    /\ UNCHANGED <<src_file, can_open, total_frames, frames_read, cap_released,
                   out_released, written, puntos_iniciales, puntos_ref,
                   frame_anterior_gray, puntos_nuevos, status, H, flow_calls,
                   homography_calls>>

\* lines 20-35
ReadFirstFrame ==
    /\ UNCHANGED <<dmVars, pipeVars>>
    /\ pc = "opened"
    /\ IF frames_read >= total_frames
       THEN /\ Return("No se pudo leer el primer frame. Abortando.")
            /\ UNCHANGED <<frames_read, out_created>>
       ELSE /\ frames_read' = frames_read + 1
            /\ out_created' = TRUE
            /\ pc' = "detect"
            /\ UNCHANGED <<result, message>>
    /\ UNCHANGED <<src_file, can_open, total_frames, cap_released,
                   out_released, written, puntos_iniciales, puntos_ref,
                   frame_anterior_gray, puntos_nuevos, status, H, flow_calls,
                   homography_calls>>

\* lines 37-59
DetectFeatures ==
    /\ UNCHANGED <<dmVars, pipeVars>>
    /\ pc = "detect"
    /\ \E found \in FeatureResults :
         /\ puntos_iniciales' = found
         /\ IF InsufficientPoints(found)
            THEN /\ Return("No se detectaron suficientes puntos en el primer frame. Abortando.")
                 /\ UNCHANGED <<puntos_ref, frame_anterior_gray>>
            ELSE /\ puntos_ref' = found
                 /\ frame_anterior_gray' = 0
                 /\ pc' = "loop"
                 /\ UNCHANGED <<result, message>>
    /\ UNCHANGED <<src_file, can_open, total_frames, frames_read, cap_released,
                   out_created, out_released, written, puntos_nuevos, status, H,
                   flow_calls, homography_calls>>

\* an exception leaves the function: the loop is abandoned where it stands,
\* nothing is written or released, the caller gets the exception
Raise(exc) ==
    /\ pc' = "raised"
    /\ result' = exc
    /\ UNCHANGED <<written, puntos_iniciales, puntos_ref, H, homography_calls,
                   frame_anterior_gray>>

\* out.write(frame_actual); frame_anterior_gray = frame_actual_gray; continue
\* (lines 78-80 and 85-87)
PassThrough(frame_actual) ==
    /\ written' = Append(written, RawFrame(frame_actual))
    /\ frame_anterior_gray' = frame_actual
    /\ UNCHANGED <<puntos_iniciales, puntos_ref, H, homography_calls, pc, result>>

\* one iteration of the while loop that reads a frame (lines 62-115).  The
\* statements after each guard raise when they meet what the guard is there
\* to keep out: status.flatten() on None (line 82), a boolean index of another
\* length (lines 91-93), findHomography on fewer than 4 points (line 99).
ProcessFrame ==
    /\ UNCHANGED <<dmVars, pipeVars>>
    /\ pc = "loop"
    /\ frames_read < total_frames
    /\ frames_read' = AfterRead(frames_read)
    /\ flow_calls' = flow_calls + 1
    /\ LET frame_actual == frames_read IN
       \E flow \in FlowResults(puntos_iniciales), h \in HomographyResults :
         /\ puntos_nuevos' = flow.puntos_nuevos
         /\ status' = flow.status
         /\ IF NoFlowResult(flow)
            THEN PassThrough(frame_actual)
            ELSE IF flow.puntos_nuevos = NonePoints \/ flow.status = NoneStatus
            THEN Raise("AttributeError")
            ELSE IF InconsistentFlow(flow, puntos_iniciales)
            THEN PassThrough(frame_actual)
            ELSE IF Len(flow.status) # Len(puntos_iniciales)
                    \/ Len(flow.status) # Len(flow.puntos_nuevos)
            THEN Raise("IndexError")
            ELSE \* lines 89-115
                 LET puntos_buenos == PuntosBuenos(flow.status)
                     puntos_iniciales_filtrados == BoolIndex(puntos_iniciales, puntos_buenos)
                     puntos_nuevos_filtrados == BoolIndex(flow.puntos_nuevos, puntos_buenos)
                     puntos_ref_filtrados == RefFiltrados(puntos_ref, puntos_buenos)
                 IN IF TooFewSurvivors(puntos_iniciales_filtrados)
                    THEN /\ written' = Append(written,
                               FrameToWrite(frame_actual, puntos_iniciales_filtrados, h))
                         /\ UNCHANGED <<H, homography_calls, pc, result>>
                         /\ frame_anterior_gray' = frame_actual
                         /\ puntos_iniciales' = AdoptedPoints(puntos_nuevos_filtrados)
                         /\ puntos_ref' = AdoptedPoints(puntos_ref_filtrados)
                    ELSE IF Len(puntos_nuevos_filtrados) < MinPoints
                    THEN Raise("cv2.error")
                    ELSE /\ H' = h
                         /\ homography_calls' = homography_calls + 1
                         /\ written' = Append(written,
                               FrameToWrite(frame_actual, puntos_iniciales_filtrados, h))
                         /\ UNCHANGED <<pc, result>>
                         /\ frame_anterior_gray' = frame_actual
                         /\ puntos_iniciales' = AdoptedPoints(puntos_nuevos_filtrados)
                         /\ puntos_ref' = AdoptedPoints(puntos_ref_filtrados)
    /\ UNCHANGED <<src_file, can_open, total_frames, cap_released, out_created,
                   out_released, message>>

\* cap.read() fails: break, then lines 117-119
EndOfInput ==
    /\ UNCHANGED <<dmVars, pipeVars>>
    /\ pc = "loop"
    /\ frames_read >= total_frames
    /\ cap_released' = TRUE
    /\ out_released' = TRUE
    /\ pc' = "returned"
    /\ result' = ReturnAtEnd
    /\ message' = "Video estabilizado guardado"
    /\ UNCHANGED <<src_file, can_open, total_frames, frames_read, out_created,
                   written, puntos_iniciales, puntos_ref, frame_anterior_gray,
                   puntos_nuevos, status, H, flow_calls, homography_calls>>

(***************************************************************************)
(* VideoProcessor.process_video (javat.py 219-247).  With a target path     *)
(* every second frame is handed to a ThreadPoolExecutor and the main thread *)
(* takes the future's result; without one process_frame is called inline.   *)
(* A process_frame call is followed through its states: queued, running     *)
(* (on a worker, before update), updated (update has returned), done.       *)
(***************************************************************************)
PoolWorkers == 4         \* ThreadPoolExecutor(max_workers=4)

\* executor.submit(...).result(): the main thread blocks on the future (234)
WaitsForResult_fire_and_forget == FALSE
WaitsForResult == TRUE

\* if frame_num % 2 != 0: continue  (232, 239)
Skipped(n) == n % 2 # 0

InFlight == { f \in DOMAIN tasks : tasks[f] # "done" }

PoolIdle ==
    /\ use_sink = FALSE
    /\ pv_total = 0
    /\ pv_pc = "idle"
    /\ pv_frame_num = 0
    /\ tasks = EmptyDict
    /\ update_log = <<>>
    /\ sink = <<>>

InitPool ==
    /\ use_sink \in BOOLEAN
    /\ pv_total \in 0..MaxVideoFrames
    /\ pv_pc = "next"
    /\ pv_frame_num = 0
    /\ tasks = EmptyDict
    /\ update_log = <<>>
    /\ sink = <<>>

\* lines 232-233 and 239-240
SkipFrame ==
    /\ pv_pc = "next"
    /\ pv_frame_num < pv_total
    /\ Skipped(pv_frame_num)
    /\ pv_frame_num' = pv_frame_num + 1
    /\ UNCHANGED <<use_sink, pv_total, pv_pc, tasks, update_log, sink>>
    /\ UNCHANGED <<dmVars, stabVars, zoneVars, mainVars, batchVars>>

\* executor.submit(self.process_frame, frame, frame_num)  (234)
SubmitFrame ==
    /\ pv_pc = "next"
    /\ use_sink
    /\ pv_frame_num < pv_total
    /\ ~Skipped(pv_frame_num)
    /\ tasks' = tasks @@ (pv_frame_num :> "queued")
    /\ IF WaitsForResult
       THEN /\ pv_pc' = "waiting"
            /\ UNCHANGED <<pv_frame_num, sink>>
       ELSE /\ sink' = Append(sink, pv_frame_num)
            /\ pv_frame_num' = pv_frame_num + 1
            /\ UNCHANGED pv_pc
    /\ UNCHANGED <<use_sink, pv_total, update_log>>
    /\ UNCHANGED <<dmVars, stabVars, zoneVars, mainVars, batchVars>>

\* a free worker takes a queued call
WorkerStart ==
    /\ \E f \in DOMAIN tasks :
         /\ tasks[f] = "queued"
         /\ Cardinality({ g \in DOMAIN tasks : tasks[g] \in {"running", "updated"} })
              < PoolWorkers
         /\ tasks' = [tasks EXCEPT ![f] = "running"]
    /\ UNCHANGED <<use_sink, pv_total, pv_pc, pv_frame_num, update_log, sink>>
    /\ UNCHANGED <<dmVars, stabVars, zoneVars, mainVars, batchVars>>

\* process_frame reaches self.detections_manager.update(..., frame_time)  (376)
WorkerUpdate ==
    /\ \E f \in DOMAIN tasks :
         /\ tasks[f] = "running"
         /\ update_log' = Append(update_log, f)
         /\ tasks' = [tasks EXCEPT ![f] = "updated"]
    /\ UNCHANGED <<use_sink, pv_total, pv_pc, pv_frame_num, sink>>
    /\ UNCHANGED <<dmVars, stabVars, zoneVars, mainVars, batchVars>>

\* process_frame returns the annotated frame: the future is done  (380)
WorkerFinish ==
    /\ \E f \in DOMAIN tasks :
         /\ tasks[f] = "updated"
         /\ tasks' = [tasks EXCEPT ![f] = "done"]
    /\ UNCHANGED <<use_sink, pv_total, pv_pc, pv_frame_num, update_log, sink>>
    /\ UNCHANGED <<dmVars, stabVars, zoneVars, mainVars, batchVars>>

\* .result() returns; sink.write_frame(annotated_frame); gc.collect()  (234-236)
CollectResult ==
    /\ pv_pc = "waiting"
    /\ tasks[pv_frame_num] = "done"
    /\ sink' = Append(sink, pv_frame_num)
    /\ pv_frame_num' = pv_frame_num + 1
    /\ pv_pc' = "next"
    /\ UNCHANGED <<use_sink, pv_total, tasks, update_log>>
    /\ UNCHANGED <<dmVars, stabVars, zoneVars, mainVars, batchVars>>

\* the branch without a target path: process_frame inline, imshow, and the
\* loop ends early when q is pressed  (238-245)
ProcessInline ==
    /\ pv_pc = "next"
    /\ ~use_sink
    /\ pv_frame_num < pv_total
    /\ ~Skipped(pv_frame_num)
    /\ update_log' = Append(update_log, pv_frame_num)
    /\ \E q_pressed \in BOOLEAN :
         IF q_pressed
         THEN pv_pc' = "done" /\ UNCHANGED pv_frame_num
         ELSE pv_frame_num' = pv_frame_num + 1 /\ UNCHANGED pv_pc
    /\ UNCHANGED <<use_sink, pv_total, tasks, sink>>
    /\ UNCHANGED <<dmVars, stabVars, zoneVars, mainVars, batchVars>>

\* the generator is exhausted; leaving the with block waits for the pool;
\* generate_csv  (228-247)
FinishVideo ==
    /\ pv_pc = "next"
    /\ pv_frame_num >= pv_total
    /\ InFlight = {}
    /\ pv_pc' = "done"
    /\ UNCHANGED <<use_sink, pv_total, pv_frame_num, tasks, update_log, sink>>
    /\ UNCHANGED <<dmVars, stabVars, zoneVars, mainVars, batchVars>>

(***************************************************************************)
(* VideoProcessor.process_frame (javat.py 321-380; the override in         *)
(* video_processor.py 274-371 has the same zone loop): the zones are       *)
(* walked in pairs and the two lists are handed to update.                 *)
(***************************************************************************)
Min(a, b) == IF a <= b THEN a ELSE b

\* zip(self.zones_in, self.zones_out)  (javat.py 358): the pairs it yields
ZippedPairs(n_in, n_out) == Min(n_in, n_out)

\* frames whose detections lie in configured zones only
FramesOf(n_in, n_out) ==
    { f \in Frames : \A k \in 1..Len(f) : /\ \A z \in f[k].zin : z < n_in
                                          /\ \A z \in f[k].zout : z < n_out }

\* lines 356-373
ZoneDetectionsIn(frame, n_in, n_out) ==
    [k \in 1..ZippedPairs(n_in, n_out) |-> InZone(frame, k - 1)]
ZoneDetectionsOut(frame, n_in, n_out) ==
    [k \in 1..ZippedPairs(n_in, n_out) |-> OutZone(frame, k - 1)]

ZonesIdle ==
    /\ zones_in = Cardinality(ZonesIn)
    /\ zones_out = Cardinality(ZonesOut)
    /\ pf_frame = <<>>
    /\ passed_in = <<>>
    /\ passed_out = <<>>

\* ZoneSelector.select_zones (zone_selector.py 167-191) saves any non-empty
\* lists, of different lengths too once the user confirms
InitZones ==
    /\ zones_in \in 1..Cardinality(ZonesIn)
    /\ zones_out \in 1..Cardinality(ZonesOut)
    /\ pf_frame = <<>>
    /\ passed_in = <<>>
    /\ passed_out = <<>>

process_frame ==
    /\ update_calls < MaxUpdates
    /\ \E frame_time \in NextFrameTimes, frame \in FramesOf(zones_in, zones_out) :
         LET detections_in_zones == ZoneDetectionsIn(frame, zones_in, zones_out)
             detections_out_zones == ZoneDetectionsOut(frame, zones_in, zones_out)
             st == UpdateState(Self, detections_in_zones, detections_out_zones,
                               frame_time)
         IN /\ pf_frame' = frame
            /\ passed_in' = detections_in_zones
            /\ passed_out' = detections_out_zones
            /\ tracker_id_to_zone_id' = st.tracker_id_to_zone_id
            /\ counts' = st.counts
            /\ tracker_entry_info' = st.tracker_entry_info
            /\ events' = st.events
            /\ event_counter' = st.event_counter
            /\ opens' = st.opens
            /\ last_call' = st.last_call
            /\ returned' = ReturnedDetections(st, frame)
            /\ frame_num' = frame_time
    /\ update_calls' = update_calls + 1
    /\ UNCHANGED <<fps, zones_in, zones_out>>
    /\ UNCHANGED <<stabVars, poolVars, mainVars, batchVars>>

(***************************************************************************)
(* procesar_videos (src/python/main.py 12-67), the body of its loop for    *)
(* one entry of the index; video_stabilizer is the call of line 46.        *)
(***************************************************************************)
MainIdle ==
    /\ idx_original = ""
    /\ idx_stable = ""
    /\ main_pc = "idle"
    /\ uploads = <<>>
    /\ index_file = ""

InitMain ==
    /\ idx_original \in {"", "original_id"}
    /\ idx_stable \in {"", "stable_id"}
    /\ main_pc = "entry"
    /\ uploads = <<>>
    /\ index_file = idx_stable

\* SetContentFile (drive.py 56) opens the file: it must exist.  The file
\* exists once the VideoWriter on that path was constructed.
OutputFileExists == out_created

\* lines 29-37
SkipEntry ==
    /\ main_pc = "entry"
    /\ (idx_original = "" \/ idx_stable # "")
    /\ main_pc' = "skipped"
    /\ UNCHANGED <<idx_original, idx_stable, uploads, index_file>>
    /\ UNCHANGED <<dmVars, stabVars, poolVars, zoneVars, batchVars>>

\* lines 39-45: get_video raises or returns the local path
DownloadOriginal ==
    /\ main_pc = "entry"
    /\ idx_original # ""
    /\ idx_stable = ""
    /\ \E downloaded \in BOOLEAN :
         main_pc' = IF downloaded THEN "stabilizing" ELSE "raised"
    /\ UNCHANGED <<idx_original, idx_stable, uploads, index_file>>
    /\ UNCHANGED <<dmVars, stabVars, poolVars, zoneVars, batchVars>>

\* lines 48-65, run when video_stabilizer has returned
UploadStable ==
    /\ main_pc = "stabilizing"
    /\ pc \in {"returned", "raised"}
    /\ IF pc = "returned" /\ OutputFileExists
       THEN /\ uploads' = Append(uploads, "ruta_stable")
            /\ idx_stable' = "new_stable_id"
            /\ index_file' = "new_stable_id"
            /\ main_pc' = "saved"
       ELSE /\ main_pc' = "raised"
            /\ UNCHANGED <<uploads, idx_stable, index_file>>
    /\ UNCHANGED idx_original
    /\ UNCHANGED <<dmVars, stabVars, poolVars, zoneVars, batchVars>>

(***************************************************************************)
(* process_all_videos and process_single_video                             *)
(* (video_processor.py 77-240, main_javat.py 84-243).  A set of polygons   *)
(* is named by a number: DefaultZones for the lists javat.py defines,      *)
(* ZonesOfVideo(i) for the ones ZoneSelector holds for entry i.            *)
(***************************************************************************)
BatchFiles == {"python/services/video_processor.py", "python/main_javat.py"}
DefaultZones == 0
ZonesOfVideo(i) == i
NoProcessor == 0

IndexEntries ==
    UNION { [1..n -> BOOLEAN] : n \in 0..MaxVideos }

BatchIdle ==
    /\ batch_file = "python/services/video_processor.py"
    /\ index_loadable = FALSE
    /\ index = <<>>
    /\ batch_pc = "idle"
    /\ batch_i = 1
    /\ outcomes = <<>>
    /\ batch_result = "None"
    /\ javat_zones = DefaultZones
    /\ module_zones = DefaultZones
    /\ loaded_zones = DefaultZones
    /\ processor_video = NoProcessor
    /\ processor_zones = DefaultZones
    /\ csv_videos = <<>>

\* javat.py 21-33 and the import of video_processor.py line 19
InitBatch ==
    /\ batch_file \in BatchFiles
    /\ index_loadable \in BOOLEAN
    /\ index \in IndexEntries
    /\ batch_pc = "start"
    /\ batch_i = 1
    /\ outcomes = <<>>
    /\ batch_result = "None"
    /\ javat_zones = DefaultZones
    /\ module_zones = DefaultZones
    /\ loaded_zones = DefaultZones
    /\ processor_video = NoProcessor
    /\ processor_zones = DefaultZones
    /\ csv_videos = <<>>

\* what process_all_videos returns after the loop (video_processor.py 141)
LoopResult(results) == "True"

\* the polygons VideoProcessor.__init__ reads (javat.py 206-207): the globals
\* of the module that defines it
ConstructorZones(of_javat, of_caller) == of_javat

\* video_processor.py 89-105: index and authentication
StartBatch ==
    /\ batch_pc = "start"
    /\ \E authenticated \in BOOLEAN :
         IF index_loadable /\ index # <<>> /\ authenticated
         THEN /\ batch_pc' = "loop"
              /\ UNCHANGED batch_result
         ELSE /\ batch_pc' = "returned"
              /\ batch_result' = "False"
    /\ UNCHANGED <<batch_file, index_loadable, index, batch_i, outcomes,
                   javat_zones, module_zones, loaded_zones, processor_video,
                   processor_zones, csv_videos>>
    /\ UNCHANGED <<dmVars, stabVars, poolVars, zoneVars, mainVars>>

\* lines 113-118
SkipVideo ==
    /\ batch_pc = "loop"
    /\ batch_i <= Len(index)
    /\ ~index[batch_i]
    /\ batch_i' = batch_i + 1
    /\ UNCHANGED <<batch_file, index_loadable, index, batch_pc, outcomes,
                   batch_result, javat_zones, module_zones, loaded_zones,
                   processor_video, processor_zones, csv_videos>>
    /\ UNCHANGED <<dmVars, stabVars, poolVars, zoneVars, mainVars>>

\* process_single_video up to the update of the globals (lines 181-208): the
\* download, load_zones, and select_zones when nothing was stored
PrepareVideo ==
    /\ batch_pc = "loop"
    /\ batch_i <= Len(index)
    /\ index[batch_i]
    /\ \E downloaded, stored, selected \in BOOLEAN :
         IF downloaded /\ (stored \/ selected)
         THEN /\ loaded_zones' = ZonesOfVideo(batch_i)
              /\ module_zones' = ZonesOfVideo(batch_i)
              /\ batch_pc' = "prepared"
              /\ UNCHANGED <<batch_i, outcomes>>
         ELSE /\ outcomes' = Append(outcomes, FALSE)
              /\ batch_i' = batch_i + 1
              /\ UNCHANGED <<loaded_zones, module_zones, batch_pc>>
    /\ UNCHANGED <<batch_file, index_loadable, index, batch_result, javat_zones,
                   processor_video, processor_zones, csv_videos>>
    /\ UNCHANGED <<dmVars, stabVars, poolVars, zoneVars, mainVars>>

\* the rest of process_single_video (lines 210-240): the processor is built
\* and run; an exception of either makes the call return False
RunProcessor ==
    /\ batch_pc = "prepared"
    /\ \E constructed, ran \in BOOLEAN :
         /\ IF constructed
            THEN /\ processor_video' = batch_i
                 /\ processor_zones' = ConstructorZones(javat_zones, module_zones)
            ELSE UNCHANGED <<processor_video, processor_zones>>
         /\ outcomes' = Append(outcomes, constructed /\ ran)
         /\ csv_videos' = IF constructed /\ ran THEN Append(csv_videos, batch_i)
                          ELSE csv_videos
    /\ batch_i' = batch_i + 1
    /\ batch_pc' = "loop"
    /\ UNCHANGED <<batch_file, index_loadable, index, batch_result, javat_zones,
                   module_zones, loaded_zones>>
    /\ UNCHANGED <<dmVars, stabVars, poolVars, zoneVars, mainVars>>

\* lines 138-141
FinishBatch ==
    /\ batch_pc = "loop"
    /\ batch_i > Len(index)
    /\ batch_pc' = "returned"
    /\ batch_result' = LoopResult(outcomes)
    /\ UNCHANGED <<batch_file, index_loadable, index, batch_i, outcomes,
                   javat_zones, module_zones, loaded_zones, processor_video,
                   processor_zones, csv_videos>>
    /\ UNCHANGED <<dmVars, stabVars, poolVars, zoneVars, mainVars>>

(***************************************************************************)
(* Specifications.  Each drives one part of the program; the parts share   *)
(* no state, and a specification keeps the other parts idle.               *)
(***************************************************************************)
NoVideo ==
    /\ src_file = "python/services/stabilizer.py"
    /\ can_open = FALSE
    /\ total_frames = 0
    /\ StabIdle

Init == InitDM /\ NoVideo /\ PoolIdle /\ ZonesIdle /\ MainIdle /\ BatchIdle
Next == update
Spec == Init /\ [][Next]_vars

InitStabilizer ==
    InitStab /\ InitDM /\ PoolIdle /\ ZonesIdle /\ MainIdle /\ BatchIdle
NextStab ==
    \/ OpenCapture
    \/ ReadFirstFrame
    \/ DetectFeatures
    \/ ProcessFrame
    \/ EndOfInput
SpecStab == InitStabilizer /\ [][NextStab]_vars

InitProcessVideo ==
    InitPool /\ InitDM /\ NoVideo /\ ZonesIdle /\ MainIdle /\ BatchIdle
NextPool ==
    \/ SkipFrame
    \/ SubmitFrame
    \/ WorkerStart
    \/ WorkerUpdate
    \/ WorkerFinish
    \/ CollectResult
    \/ ProcessInline
    \/ FinishVideo
SpecPool == InitProcessVideo /\ [][NextPool]_vars

\* video_stabilizer is one sequential function: as long as a statement is
\* left to run, it runs
InitStabilizerLive == InitStabilizer /\ total_frames <= MaxLiveFrames
SpecStabLive == InitStabilizerLive /\ [][NextStab]_vars /\ WF_vars(NextStab)

\* one DetectionsManager driven through process_frame
InitProcessFrame ==
    InitZones /\ InitDM /\ NoVideo /\ PoolIdle /\ MainIdle /\ BatchIdle
NextZones == process_frame
SpecZones == InitProcessFrame /\ [][NextZones]_vars

\* one entry of procesar_videos; the stabilizer it calls is the copy under
\* src/python
InitProcesar ==
    /\ InitMain
    /\ InitStab
    /\ src_file = "python/services/stabilizer.py"
    /\ InitDM /\ PoolIdle /\ ZonesIdle /\ BatchIdle
Stabilize == main_pc = "stabilizing" /\ NextStab
NextMain ==
    \/ SkipEntry
    \/ DownloadOriginal
    \/ Stabilize
    \/ UploadStable
SpecMain == InitProcesar /\ [][NextMain]_vars

\* one run of process_all_videos
InitProcessAll ==
    InitBatch /\ InitDM /\ NoVideo /\ PoolIdle /\ ZonesIdle /\ MainIdle
NextBatch ==
    \/ StartBatch
    \/ SkipVideo
    \/ PrepareVideo
    \/ RunProcessor
    \/ FinishBatch
SpecBatch == InitProcessAll /\ [][NextBatch]_vars


(***************************************************************************)
(* Properties of DetectionsManager.update, checked under Spec.             *)
(***************************************************************************)
\* number of events of one tracker id
EventsOf(id) == Cardinality({ k \in 1..Len(events) : events[k].Id = id })

IsOpen(id) == id \in DOMAIN tracker_entry_info

\* the part of the manager an observation can change
Effect(st) == <<st.events, st.event_counter, st.counts, st.tracker_entry_info>>

\* the frame without the observation of detection k in exit zone o
WithoutExit(frame, k, o) == [frame EXCEPT ![k].zout = @ \ {o}]

\* C1: every event of an id closes a record of its own: the events of an id
\* plus its open record (if any) number exactly the records opened for it by
\* the entry phase, and one update call appends at most one event per id
\* (also when the id is seen in several exit zones of the frame).
C1_OneEventPerCycle ==
    /\ [](\A id \in Ids :
            EventsOf(id) + (IF IsOpen(id) THEN 1 ELSE 0) = opens[id])
    /\ [][\A id \in Ids :
            Cardinality({ k \in 1..Len(events') : events'[k].Id = id })
                <= EventsOf(id) + 1]_vars

\* id closed by one exit zone of the frame and seen again, without a record,
\* in a later exit zone of the same frame; it is the id's second event
C1_Witness ==
    \E id \in Ids : /\ id \in last_call.closed
                     /\ id \in last_call.orphan
                     /\ EventsOf(id) = 2
                     /\ opens[id] = 2

\* C2: every event has Tiempo Salida >= Tiempo Entrada and Tiempo dentro >= 0.
C2_ExitNotBeforeEntry ==
    \A k \in 1..Len(events) :
        /\ TimeGeq(events[k].Tiempo_Salida, events[k].Tiempo_Entrada)
        /\ events[k].Tiempo_dentro.den > 0
        /\ events[k].Tiempo_dentro.num >= 0

\* an event whose exit was observed in a later frame than its entry
C2_Witness ==
    \E k \in 1..Len(events) :
        /\ events[k].Tiempo_dentro.num > 0
        /\ events[k].Tiempo_Salida.num > events[k].Tiempo_Entrada.num

\* C9: in every update call the model can make, an exit-zone observation of
\* an id that has no open record after the entry phase changes nothing:
\* events, event_counter, counts and tracker_entry_info end up as they do
\* when the frame is supplied without that observation.
C9_OrphanExitIsNoOp ==
    update_calls < MaxUpdates =>
        \A frame_time \in NextFrameTimes, frame \in Frames :
            LET time_seconds == TimeSeconds(frame_time, fps)
                entered == EntryPhase(Self, DetectionsInZones(frame), 0, time_seconds)
                after == ExitPhase(entered, DetectionsOutZones(frame), 0, time_seconds)
            IN \A k \in 1..Len(frame) : \A o \in frame[k].zout :
                 frame[k].tracker_id \notin DOMAIN entered.tracker_entry_info
                 => Effect(after)
                    = Effect(ExitPhase(entered,
                                       DetectionsOutZones(WithoutExit(frame, k, o)),
                                       0, time_seconds))

\* id 9 was seen in an exit zone without ever matching an entry zone
C9_Witness ==
    /\ 9 \in last_call.orphan
    /\ opens[9] = 0
    /\ events = <<>>
    /\ counts = EmptyDict
    /\ event_counter = 0

\* C10: a record that is open before and after an update call is unchanged by
\* it (entry zone, entry time, vehicle type), and an id seen in both entry
\* zones of the frame that opens its record keeps the record of the first.
C10_FirstEntryWins ==
    [][/\ \A id \in (DOMAIN tracker_entry_info) \cap (DOMAIN tracker_entry_info') :
            tracker_entry_info'[id] = tracker_entry_info[id]
       /\ \A id \in (last_call'.opened \cap last_call'.ignored)
                         \cap (DOMAIN tracker_entry_info') :
            /\ tracker_entry_info'[id].zone_in_id = 0
            /\ tracker_entry_info'[id].entry_time = TimeSeconds(frame_num', fps)]_vars

\* id seen in an entry zone in a later frame while its record is open
C10_Witness ==
    \E id \in DOMAIN tracker_entry_info :
        /\ id \in last_call.ignored
        /\ id \notin last_call.opened
        /\ tracker_entry_info[id].entry_time.num < frame_num
        /\ tracker_entry_info[id].zone_in_id = 1

\* number of events of one tracker id in an event list, and the latest of them
CountOf(evs, id) == Cardinality({ k \in 1..Len(evs) : evs[k].Id = id })
LastOf(evs, id) ==
    evs[CHOOSE k \in 1..Len(evs) :
            /\ evs[k].Id = id
            /\ \A j \in (k + 1)..Len(evs) : evs[j].Id # id]

MinOf(S) == CHOOSE x \in S : \A y \in S : x <= y

\* the manager after the entry phase / after the whole of an update call that
\* is given this frame at this frame_time in the current state
Entered(frame, frame_time) ==
    EntryPhase(Self, DetectionsInZones(frame), 0, TimeSeconds(frame_time, fps))
Outcome(frame, frame_time) ==
    UpdateState(Self, DetectionsInZones(frame), DetectionsOutZones(frame), frame_time)

\* C11: in every update call the model can make, an id without an open record
\* that the frame shows in an entry zone and in an exit zone gets exactly one
\* event in that call, with entry time = exit time = frame_time / fps and
\* Tiempo dentro = 0, and has no open record when the call returns.
C11_SameFrameEntryExit ==
    update_calls < MaxUpdates =>
        \A frame_time \in NextFrameTimes, frame \in Frames :
            LET after == Outcome(frame, frame_time)
            IN \A k \in 1..Len(frame) :
                 LET id == frame[k].tracker_id
                 IN (~IsOpen(id) /\ frame[k].zin # {} /\ frame[k].zout # {})
                    => /\ CountOf(after.events, id) = EventsOf(id) + 1
                       /\ LastOf(after.events, id).Tiempo_dentro.num = 0
                       /\ LastOf(after.events, id).Tiempo_Entrada
                            = TimeSeconds(frame_time, fps)
                       /\ LastOf(after.events, id).Tiempo_Salida
                            = TimeSeconds(frame_time, fps)
                       /\ id \notin DOMAIN after.tracker_entry_info

\* an id opened and closed by the same call, in a frame after the first
C11_Witness ==
    \E id \in last_call.opened \cap last_call.closed :
        /\ ~IsOpen(id)
        /\ frame_num > 0
        /\ LastOf(events, id).Tiempo_dentro.num = 0
        /\ LastOf(events, id).Tiempo_Entrada.num = frame_num

\* C12: in every update call the model can make, an id without an open record
\* that the frame shows in several entry zones gets the record of the lowest
\* of them, and an id that has an open record after the entry phase and is
\* shown in several exit zones gets one event, whose exit zone is the lowest.
C12_LowestZoneWins ==
    update_calls < MaxUpdates =>
        \A frame_time \in NextFrameTimes, frame \in Frames :
            LET time_seconds == TimeSeconds(frame_time, fps)
                entered == Entered(frame, frame_time)
                after == ExitPhase(entered, DetectionsOutZones(frame), 0, time_seconds)
            IN \A k \in 1..Len(frame) :
                 LET id == frame[k].tracker_id
                 IN /\ (~IsOpen(id) /\ Cardinality(frame[k].zin) > 1)
                       => entered.tracker_entry_info[id].zone_in_id
                            = MinOf(frame[k].zin)
                    /\ (id \in DOMAIN entered.tracker_entry_info
                          /\ Cardinality(frame[k].zout) > 1)
                       => /\ CountOf(after.events, id) = EventsOf(id) + 1
                          /\ LastOf(after.events, id).Id_salida = MinOf(frame[k].zout)

\* an id whose record was open from an earlier frame, seen in both exit zones
\* of the latest frame and closed by the first of them
C12_Witness ==
    \E id \in last_call.closed \cap last_call.orphan :
        /\ id \notin last_call.opened
        /\ LastOf(events, id).Id_salida = 0
        /\ LastOf(events, id).Id_Entrada = 1
        /\ LastOf(events, id).Tiempo_dentro.num > 0

\* evs holds the events before plus exactly one event of id, which reports
\* the record rec closed by an observation in exit zone o at frame b
CycleEvent(evs, id, rec, o, b) ==
    /\ CountOf(evs, id) = EventsOf(id) + 1
    /\ Len(evs) >= Len(events) + 1
    /\ LET e == LastOf(evs, id)
       IN /\ e.Id = id
          /\ e.Id_Entrada = rec.zone_in_id
          /\ e.Id_salida = o
          /\ e.Tiempo_Entrada = rec.entry_time
          /\ e.Tiempo_Salida = TimeSeconds(b, fps)
          /\ TimeEq(e.Tiempo_dentro,
                    [num |-> b - rec.entry_time.num, den |-> fps])

\* the scenario of the specification: id 7 in entry zone 1 at frame 30, then
\* in exit zone 0 at frame 90, on a manager in the current state
ScenarioEntry == <<[tracker_id |-> 7, vehicle_type |-> "car", zin |-> {1}, zout |-> {}]>>
ScenarioExit == <<[tracker_id |-> 7, vehicle_type |-> "car", zin |-> {}, zout |-> {0}]>>
ScenarioEvents ==
    LET st1 == UpdateState(Self, DetectionsInZones(ScenarioEntry),
                           DetectionsOutZones(ScenarioEntry), 30)
        st2 == UpdateState(st1, DetectionsInZones(ScenarioExit),
                           DetectionsOutZones(ScenarioExit), 90)
    IN st2.events

\* C13: every open record holds the frame a of the call that opened it as
\* a / fps.  In every update call the model can make (frame b), an id without
\* an open record shown in entry zone i gets the record (i, b / fps), and an
\* id whose record (i, a / fps) is open from an earlier call and which is
\* shown in exit zone o gets exactly one event, with Id = id, Id_Entrada = i,
\* Id_salida = o, Tiempo Entrada = a / fps, Tiempo Salida = b / fps and
\* Tiempo dentro = (b - a) / fps.  On a manager with fps 30 where id 7 is not
\* open, entry zone 1 at frame 30 and exit zone 0 at frame 90 append exactly
\* the event (7, 1, 0, 1.0, 3.0, 2.0).
C13_EventOfCycle ==
    /\ \A id \in DOMAIN tracker_entry_info :
          /\ tracker_entry_info[id].entry_time.den = fps
          /\ tracker_entry_info[id].entry_time.num \in 0..frame_num
    /\ update_calls < MaxUpdates =>
          \A frame_time \in NextFrameTimes, frame \in Frames :
            LET entered == Entered(frame, frame_time)
                after == Outcome(frame, frame_time)
            IN \A k \in 1..Len(frame) :
                 LET id == frame[k].tracker_id
                 IN /\ \A i \in ZonesIn : (~IsOpen(id) /\ frame[k].zin = {i})
                          => /\ entered.tracker_entry_info[id].zone_in_id = i
                             /\ entered.tracker_entry_info[id].entry_time
                                  = TimeSeconds(frame_time, fps)
                    /\ \A o \in ZonesOut : (IsOpen(id) /\ frame[k].zout = {o})
                          => CycleEvent(after.events, id, tracker_entry_info[id],
                                        o, frame_time)
    /\ (fps = 30 /\ ~IsOpen(7))
          => /\ Len(ScenarioEvents) = Len(events) + 1
             /\ SubSeq(ScenarioEvents, 1, Len(events)) = events
             /\ LET e == ScenarioEvents[Len(ScenarioEvents)]
                IN /\ e.Id = 7 /\ e.Id_Entrada = 1 /\ e.Id_salida = 0
                   /\ TimeEq(e.Tiempo_Entrada, [num |-> 1, den |-> 1])
                   /\ TimeEq(e.Tiempo_Salida, [num |-> 3, den |-> 1])
                   /\ TimeEq(e.Tiempo_dentro, [num |-> 2, den |-> 1])

\* id 7 entered through zone 1 in one call and left through zone 0 in a later
\* call at a later frame: its only event
C13_Witness ==
    /\ 7 \in last_call.closed
    /\ 7 \notin last_call.opened
    /\ EventsOf(7) = 1
    /\ LET e == LastOf(events, 7)
       IN /\ e.Id_Entrada = 1
          /\ e.Id_salida = 0
          /\ e.Tiempo_Entrada.num < e.Tiempo_Salida.num
          /\ e.Tiempo_dentro.num > 0

\* a frame that shows only this id, in exit zone o
ExitOnly(id, o) ==
    <<[tracker_id |-> id, vehicle_type |-> "car", zin |-> {}, zout |-> {o}]>>

\* C14: in every update call the model can make, an id that has an event and
\* no open record and is shown in an entry zone gets a fresh record with that
\* zone (the lowest, if several), the time of this call and the type of this
\* observation; the next event of the id - emitted by this call if the frame
\* also shows the id in an exit zone, otherwise by the next call that does -
\* reports that zone and that time as Id_Entrada and Tiempo Entrada.
C14_ReentryOpensFreshRecord ==
    update_calls < MaxUpdates =>
        \A frame_time \in NextFrameTimes, frame \in Frames :
            LET now == TimeSeconds(frame_time, fps)
                entered == Entered(frame, frame_time)
                after == Outcome(frame, frame_time)
            IN \A k \in 1..Len(frame) :
                 LET id == frame[k].tracker_id
                     fresh == EntryRecord(MinOf(frame[k].zin), frame[k], now)
                 IN (EventsOf(id) >= 1 /\ ~IsOpen(id) /\ frame[k].zin # {})
                    => /\ entered.tracker_entry_info[id] = fresh
                       /\ IF frame[k].zout # {}
                          THEN /\ CountOf(after.events, id) = EventsOf(id) + 1
                               /\ LastOf(after.events, id).Id_Entrada = fresh.zone_in_id
                               /\ LastOf(after.events, id).Tiempo_Entrada = now
                          ELSE /\ after.tracker_entry_info[id] = fresh
                               /\ \A o \in ZonesOut, step \in FrameSteps :
                                    LET later ==
                                          UpdateState(after,
                                              DetectionsInZones(ExitOnly(id, o)),
                                              DetectionsOutZones(ExitOnly(id, o)),
                                              frame_time + step)
                                    IN /\ CountOf(later.events, id) = EventsOf(id) + 1
                                       /\ LastOf(later.events, id).Id_Entrada
                                            = fresh.zone_in_id
                                       /\ LastOf(later.events, id).Tiempo_Entrada = now

\* an id with two events whose second cycle entered through another zone and
\* at a later time than the first
C14_Witness ==
    \E id \in Ids : \E j, k \in 1..Len(events) :
        /\ j < k
        /\ events[j].Id = id /\ events[k].Id = id
        /\ opens[id] = 2
        /\ events[j].Id_Entrada = 0 /\ events[k].Id_Entrada = 1
        /\ events[j].Tiempo_Entrada.num < events[k].Tiempo_Entrada.num

\* the frame shows this id in some exit zone
SeenInExitZone(frame, id) ==
    \E k \in 1..Len(frame) : frame[k].tracker_id = id /\ frame[k].zout # {}

\* C15: in every update call the model can make, a record that is open before
\* the call is still there, unchanged, after it, and its id has gained no
\* event, unless the frame shows the id in an exit zone - whatever else the
\* frame holds, and also when the id is not detected at all.
C15_OpenUntilExit ==
    update_calls < MaxUpdates =>
        \A frame_time \in NextFrameTimes, frame \in Frames :
            LET after == Outcome(frame, frame_time)
            IN \A id \in DOMAIN tracker_entry_info :
                 ~SeenInExitZone(frame, id)
                 => /\ id \in DOMAIN after.tracker_entry_info
                    /\ after.tracker_entry_info[id] = tracker_entry_info[id]
                    /\ CountOf(after.events, id) = EventsOf(id)

\* a record opened by an earlier call outlived a call at a later frame in
\* which its id took no branch at all; the id has no event
C15_Witness ==
    \E id \in DOMAIN tracker_entry_info :
        /\ tracker_entry_info[id].entry_time.num < frame_num
        /\ id \notin (last_call.opened \cup last_call.ignored
                        \cup last_call.closed \cup last_call.orphan)
        /\ EventsOf(id) = 0
        /\ opens[id] = 1

\* C16: every update call leaves the events it found in place and in order
\* and only adds events after them.
C16_EventsAppendOnly ==
    [][/\ Len(events') >= Len(events)
       /\ SubSeq(events', 1, Len(events)) = events]_vars

\* two events appended by two different calls
C16_Witness ==
    /\ Len(events) >= 2
    /\ events[1].Tiempo_Salida.num < events[2].Tiempo_Salida.num
    /\ events[1].Id # events[2].Id

\* the ids of the events from entry zone i to exit zone o
EventIds(o, i) ==
    { events[k].Id : k \in { n \in 1..Len(events) :
                               events[n].Id_salida = o /\ events[n].Id_Entrada = i } }

\* C17: counts[o][i] is the set of ids with an event from entry zone i to exit
\* zone o; every key of counts and of its rows comes from such an event, and
\* every event is counted.
C17_CountsMirrorEvents ==
    /\ \A o \in DOMAIN counts : \A i \in DOMAIN counts[o] :
          /\ counts[o][i] = EventIds(o, i)
          /\ counts[o][i] # {}
    /\ \A o \in DOMAIN counts : DOMAIN counts[o] # {}
    /\ \A k \in 1..Len(events) :
          /\ events[k].Id_salida \in DOMAIN counts
          /\ events[k].Id_Entrada \in DOMAIN counts[events[k].Id_salida]

\* two ids counted in the same cell, off the diagonal; counts has no other key
C17_Witness ==
    /\ 0 \in DOMAIN counts
    /\ 1 \in DOMAIN counts[0]
    /\ counts[0][1] = {7, 9}
    /\ DOMAIN counts = {0}
    /\ DOMAIN counts[0] = {1}

\* the tracker ids of a list of detections, in order
IdsOf(ds) == [k \in 1..Len(ds) |-> ds[k].tracker_id]

\* ids that took a branch of the latest call, hence were in its detections_all
InZoneLastCall ==
    last_call.opened \cup last_call.ignored \cup last_call.closed \cup last_call.orphan

\* C18: the keys of tracker_id_to_zone_id are the ids that ever opened a
\* record.  In every update call the model can make, the detections returned
\* are, in order, the detections of the frame whose id has opened a record in
\* this call or an earlier one; each carries the id's first entry zone as
\* class_id.  So the value the latest call returned holds no id that never
\* matched an entry zone and every id it saw in a zone that ever did, also
\* when the id's record is closed.
C18_ReturnedAreEverEntered ==
    /\ DOMAIN tracker_id_to_zone_id = { id \in Ids : opens[id] > 0 }
    /\ \A k \in 1..Len(returned) :
          /\ opens[returned[k].tracker_id] > 0
          /\ returned[k].class_id = tracker_id_to_zone_id[returned[k].tracker_id]
    /\ \A id \in InZoneLastCall :
          opens[id] > 0 <=> \E k \in 1..Len(returned) : returned[k].tracker_id = id
    /\ update_calls < MaxUpdates =>
          \A frame_time \in NextFrameTimes, frame \in Frames :
            LET after == Outcome(frame, frame_time)
            IN IdsOf(ReturnedDetections(after, frame))
                 = IdsOf(SelectSeq(frame, LAMBDA d : after.opens[d.tracker_id] > 0))

\* both ids were seen in an exit zone without a record: 7, whose only cycle
\* was closed by an earlier call, is returned; 9, which never entered, is not
C18_Witness ==
    /\ last_call.orphan = {7, 9}
    /\ opens[7] = 1 /\ EventsOf(7) = 1 /\ ~IsOpen(7)
    /\ opens[9] = 0
    /\ Len(returned) = 1
    /\ returned[1].tracker_id = 7

\* C19: when an update call closes a record that an earlier call opened, the
\* event it appends carries the vehicle type stored in that record by the
\* opening observation, and a vehicle colour ("Color") stored in it the same
\* way.  The events of DetectionsManager, the manager VideoProcessor and
\* EnhancedVideoProcessor construct (javat.py 217), have no colour at all.
C19_EventCarriesEntryTypeAndColour ==
    [][\A id \in last_call'.closed \cap DOMAIN tracker_entry_info :
         LET e == LastOf(events', id)
             rec == tracker_entry_info[id]
         IN /\ e.Tipo_vehiculo = rec.vehicle_type
            /\ "Color" \in DOMAIN e
            /\ "vehicle_color" \in DOMAIN rec
            /\ e.Color = rec.vehicle_color]_vars

(***************************************************************************)
(* Properties of video_stabilizer, checked under SpecStab.                 *)
(***************************************************************************)
AbortMessage == "No se detectaron suficientes puntos en el primer frame. Abortando."

\* the run ended at line 47: the first frame gave too few corners
InitFailed == pc = "returned" /\ message = AbortMessage

\* the run passed initialization and reached the end of the input
RanToEnd == pc = "returned" /\ message = "Video estabilizado guardado"

\* number of status flags equal to 1
RECURSIVE Survivors(_)
Survivors(st) ==
    IF st = <<>> THEN 0 ELSE (IF Head(st) = 1 THEN 1 ELSE 0) + Survivors(Tail(st))

\* the first-frame corners an array of points stands for
Pts(p) == { p[i].pt : i \in 1..Len(p) }

\* this step is a loop iteration whose optical flow gave one status flag per
\* tracked point and per new position
ConsistentIteration ==
    /\ pc = "loop"
    /\ frames_read' = frames_read + 1
    /\ puntos_nuevos' # NonePoints
    /\ status' # NoneStatus
    /\ Len(status') = Len(puntos_iniciales)
    /\ Len(status') = Len(puntos_nuevos')

\* C3: a run that passed initialization on a video of N readable frames has
\* written N frames when it returns (the first frame included).
C3_OutputCountEqualsInput == RanToEnd => Len(written) = total_frames

\* C4: when the first frame gives no corners or fewer than 4, the run ends
\* there: no optical-flow call, no homography call, no frame written and no
\* frame read beyond the first.
C4_NoProcessingAfterInitFailure ==
    /\ [][(pc = "detect" /\ (puntos_iniciales' = NonePoints
                               \/ Len(puntos_iniciales') < MinPoints))
            => pc' = "returned" /\ message' = AbortMessage]_vars
    /\ [](InitFailed => /\ flow_calls = 0
                        /\ homography_calls = 0
                        /\ written = <<>>
                        /\ frames_read = 1)

C4_Witness ==
    /\ InitFailed
    /\ puntos_iniciales # NonePoints
    /\ Len(puntos_iniciales) = MinPoints - 1
    /\ total_frames > 1

\* C5: an initialization failure is visible to the caller (the value it gets
\* back differs from the one of a run that reached the end) and leaves no
\* output behind (no VideoWriter was constructed on the output path).
C5_InitFailureReported == InitFailed => (result # ReturnAtEnd /\ ~out_created)

\* C6: when fewer than 4 points have status 1 after a consistent optical-flow
\* step, the frame written is the unmodified input frame, findHomography is
\* not called, and the filtered tracked / reference points are adopted.
C6_FewSurvivorsPassThrough ==
    [][(ConsistentIteration /\ Survivors(status') < MinPoints)
        => /\ written' = Append(written, RawFrame(frames_read))
           /\ homography_calls' = homography_calls
           /\ puntos_iniciales' = BoolIndex(puntos_nuevos', PuntosBuenos(status'))
           /\ puntos_ref' = BoolIndex(puntos_ref, PuntosBuenos(status'))
           /\ Len(puntos_iniciales') = Survivors(status')]_vars

C6_Witness ==
    /\ pc = "loop"
    /\ status # NoneStatus
    /\ puntos_nuevos # NonePoints
    /\ Len(status) = Len(puntos_nuevos)
    /\ Len(status) >= MinPoints
    /\ Survivors(status) = MinPoints - 1
    /\ Len(puntos_iniciales) = MinPoints - 1
    /\ written # <<>>
    /\ written[Len(written)] = RawFrame(frames_read - 1)

\* C7: once the points are detected, tracked and reference points have the
\* same length, entry i of both stands for the same first-frame corner, and
\* the reference entry is that corner's unchanged first-frame position.
C7_ParallelPointSets ==
    (pc \in {"loop", "returned"} /\ puntos_ref # NonePoints)
    => /\ Len(puntos_iniciales) = Len(puntos_ref)
       /\ \A i \in 1..Len(puntos_ref) :
             /\ puntos_iniciales[i].pt = puntos_ref[i].pt
             /\ puntos_ref[i].xy = FirstXY(puntos_ref[i].pt)

C7_Witness ==
    /\ pc = "loop"
    /\ puntos_ref # NonePoints
    /\ Len(puntos_ref) = 2
    /\ puntos_ref[1].pt = 2
    /\ puntos_iniciales[2].xy # puntos_ref[2].xy

\* C8: over the loop the number of tracked points never grows and the
\* tracked corners after a frame are among those tracked before it.
C8_MonotonicShrink ==
    [][pc = "loop" => /\ Len(puntos_iniciales') <= Len(puntos_iniciales)
                      /\ Pts(puntos_iniciales') \subseteq Pts(puntos_iniciales)]_vars

C8_Witness ==
    /\ pc = "loop"
    /\ frames_read = 3
    /\ status # NoneStatus
    /\ Len(puntos_iniciales) < Len(status)
    /\ Len(status) < MaxFeatures
    /\ Len(puntos_iniciales) > 0

\* this step is a loop iteration whose optical flow gave no result, or a
\* number of status flags other than the number of tracked points or of new
\* positions
AnomalousIteration ==
    /\ pc = "loop"
    /\ frames_read' = frames_read + 1
    /\ \/ puntos_nuevos' = NonePoints
       \/ status' = NoneStatus
       \/ Len(status') # Len(puntos_iniciales)
       \/ Len(status') # Len(puntos_nuevos')

\* C20: a loop iteration whose optical flow gave no result or inconsistent
\* counts writes the unmodified input frame (and nothing else), calls no
\* homography, leaves tracked and reference points as they were, and makes
\* the frame just read the previous gray frame.
C20_AnomalousFlowPassThrough ==
    [][AnomalousIteration
        => /\ written' = Append(written, RawFrame(frames_read))
           /\ puntos_iniciales' = puntos_iniciales
           /\ puntos_ref' = puntos_ref
           /\ homography_calls' = homography_calls
           /\ frame_anterior_gray' = frames_read]_vars

\* the latest iteration got one flag per tracked point but one new position
\* fewer, after an earlier iteration had already replaced the gray frame
C20_Witness ==
    /\ pc = "loop"
    /\ frames_read >= 3
    /\ status # NoneStatus /\ puntos_nuevos # NonePoints
    /\ Len(status) = Len(puntos_iniciales)
    /\ Len(puntos_nuevos) = Len(status) - 1
    /\ Len(puntos_iniciales) >= MinPoints
    /\ written[Len(written)] = RawFrame(frames_read - 1)
    /\ frame_anterior_gray = frames_read - 1

\* this step is an iteration of the loop
Iteration == pc = "loop" /\ frames_read' # frames_read

\* C21: an iteration that starts with fewer than 4 tracked points writes the
\* unmodified input frame, calls no homography, raises nothing and ends with
\* fewer than 4 tracked points; and from every such point of the loop the run
\* reaches its regular end with every frame of the input read.
C21_DegradedRunPassesThrough ==
    /\ [][(Iteration /\ Len(puntos_iniciales) < MinPoints)
            => /\ written' = Append(written, RawFrame(frames_read))
               /\ homography_calls' = homography_calls
               /\ Len(puntos_iniciales') < MinPoints
               /\ pc' = "loop"]_vars
    /\ [](pc # "raised")
    /\ ((pc = "loop" /\ Len(puntos_iniciales) < MinPoints)
          ~> (RanToEnd /\ frames_read = total_frames))

\* the points dropped from 4 or more to between 1 and 3 two frames ago; the
\* frame after that was written unmodified as well
C21_Witness ==
    /\ pc = "loop"
    /\ frames_read >= 3
    /\ Len(puntos_iniciales) \in 1..(MinPoints - 1)
    /\ status # NoneStatus
    /\ Len(status) < MinPoints
    /\ Len(written) >= 2
    /\ ~written[Len(written)].warped
    /\ ~written[Len(written) - 1].warped

\* C22: every iteration of the loop appends exactly one frame to the output,
\* the frame it has just read.  That frame is warped exactly when the flow
\* gave a consistent result, at least 4 points have status 1 and the
\* findHomography call of this iteration returned a transform; otherwise it is
\* the unmodified input frame.  When that call returned no transform the
\* filtered tracked and reference points are adopted all the same.
C22_OneFramePerIteration ==
    [][Iteration
        => LET e == written'[Len(written')]
               fitted == /\ ConsistentIteration
                         /\ Survivors(status') >= MinPoints
                         /\ homography_calls' = homography_calls + 1
           IN /\ Len(written') = Len(written) + 1
              /\ SubSeq(written', 1, Len(written)) = written
              /\ e.frame = frames_read
              /\ e.warped <=> (fitted /\ H' # None)
              /\ (ConsistentIteration /\ Survivors(status') >= MinPoints) => fitted
              /\ (fitted /\ H' = None)
                    => /\ puntos_iniciales'
                            = BoolIndex(puntos_nuevos', PuntosBuenos(status'))
                       /\ puntos_ref' = BoolIndex(puntos_ref, PuntosBuenos(status'))]_vars

\* the latest iteration had 4 survivors out of more, findHomography returned
\* no transform, the frame went out unmodified and the 4 points were adopted
C22_Witness ==
    /\ pc = "loop"
    /\ status # NoneStatus /\ puntos_nuevos # NonePoints
    /\ Len(status) = Len(puntos_nuevos)
    /\ Len(status) > MinPoints
    /\ Survivors(status) = MinPoints
    /\ Len(puntos_iniciales) = MinPoints
    /\ Len(puntos_ref) = MinPoints
    /\ homography_calls = 1
    /\ H = None
    /\ written = <<RawFrame(1)>>

\* C23: a run that has entered the loop never raises; every iteration reads
\* exactly one frame and stays in the loop; the loop is left only when the
\* input is exhausted; and the run always gets there, with every frame read
\* and the capture and the writer released.
C23_RunAlwaysCompletes ==
    /\ [](pc # "raised")
    /\ [][Iteration => (frames_read' = frames_read + 1 /\ pc' = "loop")]_vars
    /\ [][(pc = "loop" /\ pc' # "loop")
            => (frames_read = total_frames /\ pc' = "returned")]_vars
    /\ (pc = "loop"
          ~> (RanToEnd /\ frames_read = total_frames
                 /\ cap_released /\ out_released))

\* the run ended regularly on the longest video, after an iteration whose
\* homography failed and a last one whose optical flow gave no result
C23_Witness ==
    /\ RanToEnd
    /\ total_frames = MaxLiveFrames
    /\ frames_read = total_frames
    /\ cap_released /\ out_released
    /\ homography_calls = 1
    /\ H = None
    /\ status = NoneStatus
    /\ Len(written) = total_frames - 1

\* C29: whenever video_stabilizer has returned after opening the capture, the
\* capture is released, and so is the writer if one was created.
C29_ReleasedOnEveryReturn ==
    (pc = "returned" /\ can_open)
        => (cap_released /\ (out_created => out_released))

\* the entry zone of the first record ever opened for id: reported by the
\* id's first event, or held by the open record while there is no event yet
FirstEntryZone(id) ==
    IF EventsOf(id) >= 1
    THEN events[CHOOSE k \in 1..Len(events) :
                   /\ events[k].Id = id
                   /\ \A j \in 1..(k - 1) : events[j].Id # id].Id_Entrada
    ELSE tracker_entry_info[id].zone_in_id

\* C30: tracker_id_to_zone_id has an entry exactly for the ids that ever
\* opened a record, the entry is created by the call that opens the id's first
\* record, holds the zone of that record and is never changed or removed.  An
\* open record of the first cycle has that zone; the detections update returns
\* carry it as class_id whatever zone a later record has; and an exit seen
\* next closes the open record into an event with the record's own zone and
\* leaves the entry as it is.
C30_AnnotationZoneIsFirstEntry ==
    /\ [](DOMAIN tracker_id_to_zone_id = { id \in Ids : opens[id] >= 1 })
    /\ [](\A id \in DOMAIN tracker_id_to_zone_id :
             /\ tracker_id_to_zone_id[id] = FirstEntryZone(id)
             /\ (IsOpen(id) /\ opens[id] = 1)
                   => tracker_entry_info[id].zone_in_id = tracker_id_to_zone_id[id])
    /\ [](\A k \in 1..Len(returned) :
             /\ returned[k].tracker_id \in DOMAIN tracker_id_to_zone_id
             /\ returned[k].class_id = FirstEntryZone(returned[k].tracker_id))
    /\ [][\A id \in DOMAIN tracker_id_to_zone_id :
             /\ id \in DOMAIN tracker_id_to_zone_id'
             /\ tracker_id_to_zone_id'[id] = tracker_id_to_zone_id[id]]_vars
    /\ [][\A id \in DOMAIN tracker_id_to_zone_id' :
             id \notin DOMAIN tracker_id_to_zone_id
                => (opens[id] = 0 /\ id \in last_call'.opened)]_vars
    /\ [](update_calls < MaxUpdates =>
            \A id \in DOMAIN tracker_entry_info :
              \A frame_time \in NextFrameTimes, o \in ZonesOut :
                LET later == Outcome(ExitOnly(id, o), frame_time)
                IN /\ LastOf(later.events, id).Id_Entrada
                        = tracker_entry_info[id].zone_in_id
                   /\ later.tracker_id_to_zone_id = tracker_id_to_zone_id)

\* an id that left and came back through the other entry zone: its open
\* record has zone 1, its annotation class is still zone 0
C30_Witness ==
    \E id \in Ids :
        /\ opens[id] = 2
        /\ EventsOf(id) = 1
        /\ IsOpen(id)
        /\ tracker_entry_info[id].zone_in_id = 1
        /\ tracker_id_to_zone_id[id] = 0
        /\ \E k \in 1..Len(returned) :
              returned[k].tracker_id = id /\ returned[k].class_id = 0

\* C28: an entry gets a new stable id, and a file is uploaded for it, only
\* when video_stabilizer ran to the end of the input; when it aborted, nothing
\* is uploaded and the stable field stays empty.
C28_StableOnlyIfStabilized ==
    /\ main_pc = "saved" => RanToEnd
    /\ (main_pc \in {"saved", "raised"} /\ pc = "returned" /\ ~RanToEnd)
          => (idx_stable = "" /\ index_file = "" /\ uploads = <<>>)

(***************************************************************************)
(* Properties of VideoProcessor.process_video, checked under SpecPool.     *)
(***************************************************************************)
\* C24: at most one process_frame call is in flight; a frame is submitted
\* only when no earlier call is unfinished; update is invoked with strictly
\* increasing frame numbers, one call per processed (even) frame so far.
C24_OneFrameInFlight ==
    /\ [](Cardinality(InFlight) <= 1)
    /\ [](\A i, j \in 1..Len(update_log) : i < j => update_log[i] < update_log[j])
    /\ [](\A f \in InFlight : pv_pc = "waiting" /\ f = pv_frame_num)
    /\ [][DOMAIN tasks' # DOMAIN tasks => InFlight = {}]_vars

\* the pool branch has processed frames 0 and 2 and a worker is inside the
\* call for frame 4 while the main thread waits for it
C24_Witness ==
    /\ use_sink
    /\ update_log = <<0, 2, 4>>
    /\ sink = <<0, 2>>
    /\ tasks[4] = "updated"
    /\ pv_pc = "waiting"


(***************************************************************************)
(* Properties of process_frame and of process_all_videos.                  *)
(***************************************************************************)
\* C26: after every processed frame the lists update received have one entry
\* per configured entry zone and one per configured exit zone, and entry k
\* holds the detections of the frame that lie in zone k.
C26_EveryZonePassed ==
    update_calls > 0 =>
        /\ Len(passed_in) = zones_in
        /\ Len(passed_out) = zones_out
        /\ \A k \in 1..zones_in : passed_in[k] = InZone(pf_frame, k - 1)
        /\ \A k \in 1..zones_out : passed_out[k] = OutZone(pf_frame, k - 1)

\* C25: process_all_videos has returned True only if every
\* process_single_video call returned True.
C25_TrueOnlyIfAllSucceeded ==
    batch_result = "True" => \A k \in 1..Len(outcomes) : outcomes[k]

\* C27: the zones of a processor built by process_single_video come from the
\* polygons ZoneSelector holds for the video it was built for.
C27_ProcessorUsesVideoZones ==
    processor_video # NoProcessor
        => processor_zones = ZonesOfVideo(processor_video)

=============================================================================
